---- MODULE Spec2Model ----
(***************************************************************************)
(* A model of the Pix lifecycle of leptonica's src/src/pix1.c: the pixel   *)
(* buffer allocator, the constructors, pixClone, pixDestroy/pixFree,       *)
(* pixCopy and the accessors they call.                                    *)
(*                                                                         *)
(* The C heap is modelled by four tables (pix headers, pixel buffers,      *)
(* text strings, colormaps).  An address is an index into its table; 0 is  *)
(* the null pointer.  An address is never handed out twice, so a pointer   *)
(* to released memory stays recognisable.  The caller's PIX* variables     *)
(* are the reference slots.                                                *)
(*                                                                         *)
(* Each C function is an operator from a heap record to a heap record,     *)
(* composed the way the C functions call each other; each action of the    *)
(* specification is one call made by the caller.                           *)
(***************************************************************************)
EXTENDS Integers, Sequences, FiniteSets, TLC

\* Bounds of the model.
MaxPix == 2      \* pix headers ever allocated
NSlots == 3      \* the caller's PIX* variables

MaxBuf  == MaxPix + 1    \* pixel buffers ever allocated
MaxTxt  == MaxPix + 1    \* text strings ever allocated
MaxCmap == MaxPix + 1    \* colormaps ever allocated

\* imageio.h: the input format of a pix that was not read from a file.
IFF_UNKNOWN == 0

VARIABLES
    pix,     \* pix[p]: the PIX struct at address p
    buf,     \* buf[b]: the pixel buffer at address b
    txt,     \* txt[t]: the text string at address t
    cmap,    \* cmap[c]: the colormap at address c
    slot,    \* slot[s]: the caller's PIX* variable s (0: NULL)
    mgr,     \* pix_mem_manager: the allocator and deallocator in use, and
             \* whether the program was built with COMPILER_MSVC
    last,    \* the call just made: its name, arguments, return value, messages
    fault,   \* "none", or what the undefined behaviour of a call led to
    geo,     \* the geometry computation on its own (see GeomSpec)
    bal,     \* the clone/destroy balance scenario (see BalanceSpec)
    thr      \* the threads that share a pix (see RaceSpec)

heapvars == <<pix, buf, txt, cmap, slot, mgr, last, fault>>
vars == <<pix, buf, txt, cmap, slot, mgr, last, fault, geo, bal, thr>>

PixIds  == 1..MaxPix
BufIds  == 1..MaxBuf
TxtIds  == 1..MaxTxt
CmapIds == 1..MaxCmap
Slots   == 1..NSlots
NoSlot  == 0     \* pixDestroy(NULL): no slot at all

(***************************************************************************)
(* l_int32 arithmetic.  The C expressions are evaluated in 32-bit signed   *)
(* integers; a result out of range wraps modulo 2^32 (the outcome of       *)
(* every two's complement build that does not trap).  The operators work   *)
(* on 16-bit halves so that no intermediate value leaves the 32-bit range. *)
(***************************************************************************)
Lo16(x) == x % 65536
Hi16(x) == (x \div 65536) % 65536

FromHalves(hi, lo) ==
    IF hi >= 32768 THEN (hi - 65536) * 65536 + lo ELSE hi * 65536 + lo

\* (a * b) mod 2^16, for a and b in 0..65535.
MulMod16(a, b) == (((a % 256) * b) + ((((a \div 256) * b) % 256) * 256)) % 65536

\* x + y in l_int32.
Add32(x, y) ==
    LET lo == Lo16(x) + Lo16(y)
        hi == Hi16(x) + Hi16(y) + (lo \div 65536)
    IN  FromHalves(hi % 65536, lo % 65536)

\* x * y in l_int32.
Mul32(x, y) ==
    LET al == Lo16(x)
        ah == Hi16(x)
        bl == Lo16(y)
        bh == Hi16(y)
        p0 == (al % 256) * bl
        p1 == (al \div 256) * bl
        lo == (p0 % 65536) + ((p1 % 256) * 256)
        hi == (p0 \div 65536) + (p1 \div 256) + (lo \div 65536)
                + MulMod16(ah, bl) + MulMod16(al, bh)
    IN  FromHalves(hi % 65536, lo % 65536)

\* x / y in C (truncation toward zero), for y > 0.
CDiv(x, y) ==
    IF x >= 0 THEN x \div y
    ELSE LET m == -(x + 1)    \* -x - 1: -x itself may not be an l_int32
         IN  -((m \div y) + (IF m % y = y - 1 THEN 1 ELSE 0))

\* The largest l_int32.
MaxInt32 == 2147483647

\* width * depth + 31 is more than an l_int32 holds: the arithmetic is signed,
\* so what the program does then is not defined.
WplOverflows(width, depth) == width > (MaxInt32 - 31) \div depth

\* 4 * wpl * height is not what an l_int32 holds.
BytesOverflow(wpl, height) ==
    \/ wpl < 0
    \/ wpl > MaxInt32 \div 4
    \/ (wpl > 0 /\ height > MaxInt32 \div (4 * wpl))

\* pixCreateHeader: wpl = (width * depth + 31) / 32;
HeaderWpl(width, depth) == CDiv(Add32(Mul32(width, depth), 31), 32)

\* pixCreateNoInit, pixResizeImageData, pixCopy: 4 * wpl * height
DataBytes(wpl, height) == Mul32(Mul32(4, wpl), height)


(***************************************************************************)
(* The heap.                                                               *)
(***************************************************************************)
NullStr == "<null>"       \* a null char* argument

\* A word of a pixel buffer: the set of its bit positions that are 1, bit 0
\* being the first bit of the word in raster order.
WordBits == 0..31
ZeroWord == {}

\* What malloc'ed memory may hold: every word the same, all 0 or all 1.
JunkWords == {ZeroWord, WordBits}

\* CALLOC(1, sizeof(PIX)): every field 0.
CallocPix ==
    [st |-> "live", w |-> 0, h |-> 0, d |-> 0, wpl |-> 0, refcount |-> 0,
     xres |-> 0, yres |-> 0, informat |-> 0, text |-> 0, colormap |-> 0,
     data |-> 0]

UnusedPix  == [CallocPix EXCEPT !.st = "unused"]
UnusedBuf  == [st |-> "unused", bytes |-> 0, words |-> <<>>, by |-> "",
               freedBy |-> "", frees |-> 0]
UnusedTxt  == [st |-> "unused", val |-> "", frees |-> 0]
UnusedCmap == [st |-> "unused", val |-> "", frees |-> 0]

\* The heap a call starts from: no message yet, nothing returned.
Heap ==
    [pix |-> pix, buf |-> buf, txt |-> txt, cmap |-> cmap, slot |-> slot,
     mgr |-> mgr, fault |-> "none", full |-> FALSE, diag |-> <<>>, ret |-> 0, hdr |-> 0]

\* The lowest address of a table not handed out yet (0: none is left).
Fresh(tab, ids) ==
    IF \E i \in ids : tab[i].st = "unused"
    THEN CHOOSE i \in ids : /\ tab[i].st = "unused"
                            /\ \A j \in ids : tab[j].st = "unused" => i <= j
    ELSE 0

\* ERROR_PTR, ERROR_INT, L_WARNING: a message on stderr and the return value.
\* LET x == v IN F(x): a local variable of a function, assigned once.
Bind(v, F(_)) == F(v)

Error(h, msg, r) == [h EXCEPT !.diag = Append(@, msg), !.ret = r]
Return(h, r) == [h EXCEPT !.ret = r]

\* Undefined behaviour: the first one of a call is recorded.
Undefined(h, what) == [h EXCEPT !.fault = IF @ = "none" THEN what ELSE @]

\* A dereference of the PIX* p.
Deref(h, p) ==
    IF h.pix[p].st = "live" THEN h ELSE Undefined(h, "use of a freed pix")

(***************************************************************************)
(* Pix memory management                                                   *)
(***************************************************************************)
\* (*pix_mem_manager.allocator)(size): size is the l_int32 byte count
\* converted to size_t, so a negative count asks for more than the address
\* space holds.  ok: whether the allocator finds the memory.
\* static struct PixMemoryManager pix_mem_manager = { &malloc, &free };
DefaultManager == [allocator |-> "malloc", deallocator |-> "free", msvc |-> FALSE]

pix_malloc(h, size, ok, junk) ==
    LET b == Fresh(h.buf, BufIds)
    IN  IF size < 0 \/ ~ok THEN Return(h, 0)
        ELSE IF b = 0 THEN [h EXCEPT !.full = TRUE, !.ret = 0]
        ELSE [h EXCEPT !.buf[b] = [st |-> "live", bytes |-> size,
                                   words |-> [i \in 1..(size \div 4) |-> junk],
                                   by |-> IF h.mgr.msvc THEN "malloc"
                                          ELSE h.mgr.allocator,
                                   freedBy |-> "", frees |-> 0],
                       !.ret = b]

\* Released memory holds nothing the program may read: the model keeps of
\* it only that it was released, and how many times.
Released(unused, r) == [unused EXCEPT !.st = "freed", !.frees = r.frees + 1]

\* (*pix_mem_manager.deallocator)(ptr)
pix_free(h, b) ==
    LET h1 == IF h.buf[b].st = "live" THEN h
              ELSE Undefined(h, "double free of a pixel buffer")
    IN  [h1 EXCEPT !.buf[b] = [Released(UnusedBuf, @)
                                  EXCEPT !.freedBy = IF h.mgr.msvc THEN "free"
                                                     ELSE h.mgr.deallocator]]

\* memset(data, 0, bytes)
memset0(h, b, bytes) ==
    IF bytes <= 0 THEN h
    ELSE IF b = 0 THEN Undefined(h, "memset on a null buffer")
    ELSE LET n  == bytes \div 4
             h1 == IF h.buf[b].st # "live"
                   THEN Undefined(h, "write to a freed pixel buffer")
                   ELSE IF bytes > h.buf[b].bytes
                   THEN Undefined(h, "write past the end of a pixel buffer")
                   ELSE h
         IN  IF h.buf[b].st # "live" THEN h1
             ELSE [h1 EXCEPT !.buf[b].words =
                      [i \in DOMAIN @ |-> IF i <= n THEN ZeroWord ELSE @[i]]]

\* memcpy(datad, datas, bytes)
memcpy(h, bd, bs, bytes) ==
    IF bytes <= 0 THEN h
    ELSE IF bd = 0 THEN Undefined(h, "memcpy to a null buffer")
    ELSE IF bs = 0 THEN Undefined(h, "memcpy from a null buffer")
    ELSE LET n  == bytes \div 4
             h1 == IF h.buf[bd].st # "live"
                   THEN Undefined(h, "write to a freed pixel buffer")
                   ELSE IF bytes > h.buf[bd].bytes
                   THEN Undefined(h, "write past the end of a pixel buffer")
                   ELSE h
             h2 == IF h.buf[bs].st # "live"
                   THEN Undefined(h1, "read of a freed pixel buffer")
                   ELSE IF bytes > h.buf[bs].bytes
                   THEN Undefined(h1, "read past the end of a pixel buffer")
                   ELSE h1
             src == h.buf[bs].words
         IN  IF h.buf[bd].st # "live" THEN h2
             ELSE [h2 EXCEPT !.buf[bd].words =
                      [i \in DOMAIN @ |->
                          IF i <= n /\ i \in DOMAIN src THEN src[i] ELSE @[i]]]

(***************************************************************************)
(* Accessors                                                               *)
(***************************************************************************)
\* pixSetWidth, were a width below 0 refused and nothing stored.
pixSetWidth_KeepsOnError(h, p, width) ==
    IF p = 0 THEN Error(h, "pixSetWidth: pix not defined", 1)
    ELSE IF width < 0
    THEN Error(h, "pixSetWidth: width must be >= 0", 1)
    ELSE Return([h EXCEPT !.pix[p].w = width], 0)

pixSetWidth(h, p, width) ==
    IF p = 0 THEN Error(h, "pixSetWidth: pix not defined", 1)
    ELSE IF width < 0
    THEN Error([h EXCEPT !.pix[p].w = 0], "pixSetWidth: width must be >= 0", 1)
    ELSE Return([h EXCEPT !.pix[p].w = width], 0)

pixSetHeight(h, p, height) ==
    IF p = 0 THEN Error(h, "pixSetHeight: pix not defined", 1)
    ELSE IF height < 0
    THEN Error([h EXCEPT !.pix[p].h = 0], "pixSetHeight: h must be >= 0", 1)
    ELSE Return([h EXCEPT !.pix[p].h = height], 0)

pixSetDepth(h, p, depth) ==
    IF p = 0 THEN Error(h, "pixSetDepth: pix not defined", 1)
    ELSE IF depth < 1 THEN Error(h, "pixSetDepth: d must be >= 1", 1)
    ELSE Return([h EXCEPT !.pix[p].d = depth], 0)

pixSetWpl(h, p, wpl) ==
    IF p = 0 THEN Error(h, "pixSetWpl: pix not defined", 1)
    ELSE Return([h EXCEPT !.pix[p].wpl = wpl], 0)

pixChangeRefcount(h, p, delta) ==
    IF p = 0 THEN Error(h, "pixChangeRefcount: pix not defined", 1)
    ELSE Return([h EXCEPT !.pix[p].refcount = Add32(@, delta)], 0)

pixSetXRes(h, p, res) ==
    IF p = 0 THEN Error(h, "pixSetXRes: pix not defined", 1)
    ELSE Return([h EXCEPT !.pix[p].xres = res], 0)

pixSetYRes(h, p, res) ==
    IF p = 0 THEN Error(h, "pixSetYRes: pix not defined", 1)
    ELSE Return([h EXCEPT !.pix[p].yres = res], 0)

pixCopyResolution(h, pd, ps) ==
    IF ps = 0 THEN Error(h, "pixCopyResolution: pixs not defined", 1)
    ELSE IF pd = 0 THEN Error(h, "pixCopyResolution: pixd not defined", 1)
    ELSE Return(pixSetYRes(pixSetXRes(h, pd, h.pix[ps].xres),
                           pd, h.pix[ps].yres), 0)

pixSetInputFormat(h, p, informat) ==
    IF p = 0 THEN Error(h, "pixSetInputFormat: pix not defined", 1)
    ELSE Return([h EXCEPT !.pix[p].informat = informat], 0)

pixCopyInputFormat(h, pd, ps) ==
    IF ps = 0 THEN Error(h, "pixCopyInputFormat: pixs not defined", 1)
    ELSE IF pd = 0 THEN Error(h, "pixCopyInputFormat: pixd not defined", 1)
    ELSE Return(pixSetInputFormat(h, pd, h.pix[ps].informat), 0)

\* The string pixGetText(pix) points to (NullStr: a null pointer).
pixGetText(h, p) ==
    IF p = 0 \/ h.pix[p].text = 0 THEN NullStr ELSE h.txt[h.pix[p].text].val

\* utils.c, stringReplace(&pix->text, src): the old string is freed, then a
\* copy of src, if src is not null, is put in its place.
stringReplace(h, p, src) ==
    LET old == h.pix[p].text
        h1  == IF old = 0 THEN h
               ELSE [(IF h.txt[old].st = "live" THEN h
                      ELSE Undefined(h, "double free of a text string"))
                     EXCEPT !.txt[old] = Released(UnusedTxt, @)]
        t   == Fresh(h1.txt, TxtIds)
    IN  IF src = NullStr THEN [h1 EXCEPT !.pix[p].text = 0]
        ELSE IF t = 0 THEN [h1 EXCEPT !.full = TRUE]
        ELSE [h1 EXCEPT !.txt[t] = [st |-> "live", val |-> src, frees |-> 0],
                        !.pix[p].text = t]

pixSetText(h, p, textstring) ==
    IF p = 0 THEN Error(h, "pixSetText: pix not defined", 1)
    ELSE Return(stringReplace(h, p, textstring), 0)

pixCopyText(h, pd, ps) ==
    IF ps = 0 THEN Error(h, "pixCopyText: pixs not defined", 1)
    ELSE IF pd = 0 THEN Error(h, "pixCopyText: pixd not defined", 1)
    ELSE Return(pixSetText(h, pd, pixGetText(h, ps)), 0)

\* colormap.c, pixcmapDestroy(&cmap): the colormap is freed.
pixcmapDestroy(h, c) ==
    [(IF h.cmap[c].st = "live" THEN h
      ELSE Undefined(h, "double free of a colormap"))
     EXCEPT !.cmap[c] = Released(UnusedCmap, @)]

\* colormap.c, pixcmapCopy(cmaps): a new colormap with the same entries, or
\* null when there is no memory for it (ok).
pixcmapCopy(h, c, ok) ==
    LET n  == Fresh(h.cmap, CmapIds)
        h1 == IF h.cmap[c].st = "live" THEN h
              ELSE Undefined(h, "read of a freed colormap")
    IN  IF ~ok THEN Return(h1, 0)
        ELSE IF n = 0 THEN [h1 EXCEPT !.full = TRUE, !.ret = 0]
        ELSE [h1 EXCEPT !.cmap[n] = [st |-> "live", val |-> h.cmap[c].val,
                                     frees |-> 0],
                        !.ret = n]

pixDestroyColormap(h, p) ==
    IF p = 0 THEN Error(h, "pixDestroyColormap: pix not defined", 1)
    ELSE IF h.pix[p].colormap = 0 THEN Return(h, 0)
    ELSE Return([pixcmapDestroy(h, h.pix[p].colormap)
                    EXCEPT !.pix[p].colormap = 0], 0)

\* pixSetColormap, were the colormap that the pix has not destroyed.
pixSetColormap_KeepsOld(h, p, colormap) ==
    IF p = 0 THEN Error(h, "pixSetColormap: pix not defined", 1)
    ELSE Return([h EXCEPT !.pix[p].colormap = colormap], 0)

pixSetColormap(h, p, colormap) ==
    IF p = 0 THEN Error(h, "pixSetColormap: pix not defined", 1)
    ELSE Return([pixDestroyColormap(h, p) EXCEPT !.pix[p].colormap = colormap], 0)

\* pixSetData, were the data that the pix has freed first.
pixSetData_FreesOld(h, p, data) ==
    IF p = 0 THEN Error(h, "pixSetData: pix not defined", 1)
    ELSE Return([(IF h.pix[p].data # 0 THEN pix_free(h, h.pix[p].data) ELSE h)
                    EXCEPT !.pix[p].data = data], 0)

pixSetData(h, p, data) ==
    IF p = 0 THEN Error(h, "pixSetData: pix not defined", 1)
    ELSE Return([h EXCEPT !.pix[p].data = data], 0)

pixCopyColormap(h, pd, ps, cok) ==
    IF ps = 0 THEN Error(h, "pixCopyColormap: pixs not defined", 1)
    ELSE IF pd = 0 THEN Error(h, "pixCopyColormap: pixd not defined", 1)
    ELSE IF h.pix[ps].colormap = 0 THEN Return(h, 0)
    ELSE LET h1 == pixcmapCopy(h, h.pix[ps].colormap, cok)
         IN  IF h1.ret = 0 THEN Error(h1, "pixCopyColormap: cmapd not made", 1)
             ELSE Return(pixSetColormap(h1, pd, h1.ret), 0)

pixSizesEqual(h, p1, p2) ==
    IF p1 = 0 \/ p2 = 0 THEN FALSE
    ELSE IF p1 = p2 THEN TRUE
    ELSE ~ \/ h.pix[p1].w # h.pix[p2].w
           \/ h.pix[p1].h # h.pix[p2].h
           \/ h.pix[p1].d # h.pix[p2].d

\* pix2.c, pixSetPadBits(pix, 0): in the last word of every row, the bits
\* beyond the row's w * d bits are cleared.
pixSetPadBits0(h, p) ==
    LET r    == h.pix[p]
        used == (r.w * r.d) % 32
        pad  == IF used = 0 THEN {} ELSE used..31
    IN  IF r.data = 0 \/ r.wpl <= 0 THEN h
        ELSE [h EXCEPT !.buf[r.data].words =
                 [i \in DOMAIN @ |-> IF i % r.wpl = 0 THEN @[i] \ pad ELSE @[i]]]

(***************************************************************************)
(* Pix creation                                                            *)
(* hok: CALLOC finds memory for the header; dok: the pix allocator finds   *)
(* memory for the pixel buffer; cok: pixcmapCopy finds memory; junk: what  *)
(* the buffer holds when it comes from the allocator.                      *)
(***************************************************************************)
\* pixCreateHeader, were the height not checked.
pixCreateHeader_AnyHeight(h, width, height, depth, hok) ==
    LET p  == Fresh(h.pix, PixIds)
        h1 == [h EXCEPT !.pix[p] = CallocPix]
        h2 == pixSetWidth(h1, p, width)
        h3 == pixSetHeight(h2, p, height)
        h4 == pixSetDepth(h3, p, depth)
        h5 == pixSetWpl(h4, p, HeaderWpl(width, depth))
    IN  IF depth \notin {1, 2, 4, 8, 16, 24, 32}
        THEN Error(h, "pixCreateHeader: depth must be {1, 2, 4, 8, 16, 24, 32}", 0)
        ELSE IF width <= 0
        THEN Error(h, "pixCreateHeader: width must be > 0", 0)
        ELSE IF ~hok
        THEN Error(h, "pixCreateHeader: CALLOC fail for pixd", 0)
        ELSE IF p = 0 THEN [h EXCEPT !.full = TRUE, !.ret = 0]
        ELSE [h5 EXCEPT !.pix[p].refcount = 1,
                        !.pix[p].informat = IFF_UNKNOWN,
                        !.ret = p, !.hdr = p]

pixCreateHeader(h, width, height, depth, hok) ==
    LET p  == Fresh(h.pix, PixIds)
        h1 == [h EXCEPT !.pix[p] = CallocPix]
        h2 == pixSetWidth(h1, p, width)
        h3 == pixSetHeight(h2, p, height)
        h4 == pixSetDepth(h3, p, depth)
        h5 == pixSetWpl(h4, p, HeaderWpl(width, depth))
    IN  IF depth \notin {1, 2, 4, 8, 16, 24, 32}
        THEN Error(h, "pixCreateHeader: depth must be {1, 2, 4, 8, 16, 24, 32}", 0)
        ELSE IF width <= 0
        THEN Error(h, "pixCreateHeader: width must be > 0", 0)
        ELSE IF height <= 0
        THEN Error(h, "pixCreateHeader: height must be > 0", 0)
        ELSE IF ~hok
        THEN Error(h, "pixCreateHeader: CALLOC fail for pixd", 0)
        ELSE IF p = 0 THEN [h EXCEPT !.full = TRUE, !.ret = 0]
        ELSE [h5 EXCEPT !.pix[p].refcount = 1,
                        !.pix[p].informat = IFF_UNKNOWN,
                        !.ret = p, !.hdr = p]

\* pixCreateNoInit, were the pad bits cleared before the data is set in
\* the pix.
pixCreateNoInit_PadBeforeData(h, width, height, depth, hok, dok, junk) ==
    Bind(pixCreateHeader(h, width, height, depth, hok), LAMBDA h1 :
        IF h1.ret = 0 THEN Return(h1, 0)
        ELSE Bind(pix_malloc(h1, DataBytes(h1.pix[h1.ret].wpl, height), dok, junk),
                  LAMBDA h2 :
            IF h2.ret = 0
            THEN Error(h2, "pixCreateNoInit: MALLOC fail for data", 0)
            ELSE Return(pixSetData(pixSetPadBits0(h2, h1.ret), h1.ret, h2.ret),
                        h1.ret)))

pixCreateNoInit(h, width, height, depth, hok, dok, junk) ==
    Bind(pixCreateHeader(h, width, height, depth, hok), LAMBDA h1 :
        IF h1.ret = 0 THEN Return(h1, 0)
        ELSE Bind(pix_malloc(h1, DataBytes(h1.pix[h1.ret].wpl, height), dok, junk),
                  LAMBDA h2 :
            IF h2.ret = 0
            THEN Error(h2, "pixCreateNoInit: MALLOC fail for data", 0)
            ELSE Return(pixSetPadBits0(pixSetData(h2, h1.ret, h2.ret), h1.ret),
                        h1.ret)))

\* pixCreate, were the data not set to 0.
pixCreate_NoMemset(h, width, height, depth, hok, dok, junk) ==
    Bind(pixCreateNoInit(h, width, height, depth, hok, dok, junk), LAMBDA h1 :
        IF h1.ret = 0 THEN Error(h1, "pixCreate: pixd not made", 0)
        ELSE Return(h1, h1.ret))

pixCreate(h, width, height, depth, hok, dok, junk) ==
    Bind(pixCreateNoInit(h, width, height, depth, hok, dok, junk), LAMBDA h1 :
        IF h1.ret = 0 THEN Error(h1, "pixCreate: pixd not made", 0)
        ELSE Return(memset0(h1, h1.pix[h1.ret].data,
                            DataBytes(h1.pix[h1.ret].wpl, h1.pix[h1.ret].h)),
                    h1.ret))

pixCreateTemplateNoInit(h, ps, hok, dok, cok, junk) ==
    IF ps = 0
    THEN Error(h, "pixCreateTemplateNoInit: pixs not defined", 0)
    ELSE Bind(pixCreateNoInit(h, h.pix[ps].w, h.pix[ps].h, h.pix[ps].d,
                              hok, dok, junk), LAMBDA h1 :
        IF h1.ret = 0
        THEN Error(h1, "pixCreateTemplateNoInit: pixd not made", 0)
        ELSE Return(pixCopyInputFormat(
                        pixCopyText(
                            pixCopyColormap(
                                pixCopyResolution(h1, h1.ret, ps),
                                h1.ret, ps, cok),
                            h1.ret, ps),
                        h1.ret, ps),
                    h1.ret))

pixCreateTemplate(h, ps, hok, dok, cok, junk) ==
    IF ps = 0 THEN Error(h, "pixCreateTemplate: pixs not defined", 0)
    ELSE Bind(pixCreateTemplateNoInit(h, ps, hok, dok, cok, junk), LAMBDA h1 :
        IF h1.ret = 0 THEN Error(h1, "pixCreateTemplate: pixd not made", 0)
        ELSE Return(memset0(h1, h1.pix[h1.ret].data,
                            DataBytes(h1.pix[h1.ret].wpl, h1.pix[h1.ret].h)),
                    h1.ret))

\* pixClone, were the reference not counted.
pixClone_NoCount(h, ps) ==
    IF ps = 0 THEN Error(h, "pixClone: pixs not defined", 0)
    ELSE Return(Deref(h, ps), ps)

pixClone(h, ps) ==
    IF ps = 0 THEN Error(h, "pixClone: pixs not defined", 0)
    ELSE Return(pixChangeRefcount(Deref(h, ps), ps, 1), ps)

(***************************************************************************)
(* Pix destruction                                                         *)
(***************************************************************************)
\* FREE(text), FREE(pix)
FreeText(h, t) ==
    [(IF h.txt[t].st = "live" THEN h
      ELSE Undefined(h, "double free of a text string"))
     EXCEPT !.txt[t] = Released(UnusedTxt, @)]

FreePix(h, p) == [h EXCEPT !.pix[p] = [UnusedPix EXCEPT !.st = "freed"]]

\* pixFree, were the pix freed with one reference left.
pixFree_OneLeft(h, p) ==
    LET h1 == pixChangeRefcount(Deref(h, p), p, -1)
        h2 == IF h1.pix[p].data # 0 THEN pix_free(h1, h1.pix[p].data) ELSE h1
        h3 == IF h2.pix[p].text # 0 THEN FreeText(h2, h2.pix[p].text) ELSE h2
        h4 == pixDestroyColormap(h3, p)
    IN  IF p = 0 THEN h
        ELSE IF h1.pix[p].refcount <= 1 THEN Return(FreePix(h4, p), 0)
        ELSE Return(h1, 0)

pixFree(h, p) ==
    LET h1 == pixChangeRefcount(Deref(h, p), p, -1)
        h2 == IF h1.pix[p].data # 0 THEN pix_free(h1, h1.pix[p].data) ELSE h1
        h3 == IF h2.pix[p].text # 0 THEN FreeText(h2, h2.pix[p].text) ELSE h2
        h4 == pixDestroyColormap(h3, p)
    IN  IF p = 0 THEN h
        ELSE IF h1.pix[p].refcount <= 0 THEN Return(FreePix(h4, p), 0)
        ELSE Return(h1, 0)

\* pixDestroy, were the variable set to NULL only when the pix is freed.
pixDestroy_KeepsPointer(h, ppix) ==
    LET p  == h.slot[ppix]
        h1 == pixFree(h, p)
    IN  IF ppix = NoSlot THEN Error(h, "pixDestroy: ptr address is null!", 0)
        ELSE IF p = 0 THEN Return(h, 0)
        ELSE IF h1.pix[p].st = "live" THEN h1
        ELSE [h1 EXCEPT !.slot[ppix] = 0]

\* pixDestroy, were a variable that holds NULL warned of.
pixDestroy_WarnsOfNull(h, ppix) ==
    IF ppix = NoSlot THEN Error(h, "pixDestroy: ptr address is null!", 0)
    ELSE IF h.slot[ppix] = 0 THEN Error(h, "pixDestroy: pix is null!", 0)
    ELSE [pixFree(h, h.slot[ppix]) EXCEPT !.slot[ppix] = 0]

\* ppix: the caller's variable (NoSlot: a null PIX**).
pixDestroy(h, ppix) ==
    IF ppix = NoSlot THEN Error(h, "pixDestroy: ptr address is null!", 0)
    ELSE IF h.slot[ppix] = 0 THEN Return(h, 0)
    ELSE [pixFree(h, h.slot[ppix]) EXCEPT !.slot[ppix] = 0]

(***************************************************************************)
(* Pix copy                                                                *)
(***************************************************************************)
\* pixResizeImageData, were the old pixel buffer of pixd not freed.
pixResizeImageData_KeepsOld(h, pd, ps, dok, junk) ==
    IF ps = 0 THEN Error(h, "pixResizeImageData: pixs not defined", 1)
    ELSE IF pd = 0 THEN Error(h, "pixResizeImageData: pixd not defined", 1)
    ELSE IF pixSizesEqual(h, ps, pd) THEN Return(h, 0)
    ELSE Bind(pixSetWpl(pixSetDepth(pixSetHeight(pixSetWidth(h, pd, h.pix[ps].w),
                                                 pd, h.pix[ps].h),
                                    pd, h.pix[ps].d),
                        pd, h.pix[ps].wpl), LAMBDA h1 :
         Bind(pix_malloc(h1, DataBytes(h.pix[ps].wpl, h.pix[ps].h), dok, junk),
              LAMBDA h3 :
             IF h3.ret = 0
             THEN Error(h3, "pixResizeImageData: MALLOC fail for data", 1)
             ELSE Return(pixSetData(h3, pd, h3.ret), 0)))

pixResizeImageData(h, pd, ps, dok, junk) ==
    IF ps = 0 THEN Error(h, "pixResizeImageData: pixs not defined", 1)
    ELSE IF pd = 0 THEN Error(h, "pixResizeImageData: pixd not defined", 1)
    ELSE IF pixSizesEqual(h, ps, pd) THEN Return(h, 0)
    ELSE Bind(pixSetWpl(pixSetDepth(pixSetHeight(pixSetWidth(h, pd, h.pix[ps].w),
                                                 pd, h.pix[ps].h),
                                    pd, h.pix[ps].d),
                        pd, h.pix[ps].wpl), LAMBDA h1 :
         Bind(IF h1.pix[pd].data # 0 THEN pix_free(h1, h1.pix[pd].data) ELSE h1,
              LAMBDA h2 :
         Bind(pix_malloc(h2, DataBytes(h.pix[ps].wpl, h.pix[ps].h), dok, junk),
              LAMBDA h3 :
             IF h3.ret = 0
             THEN Error(h3, "pixResizeImageData: MALLOC fail for data", 1)
             ELSE Return(pixSetData(h3, pd, h3.ret), 0))))

\* pixCopy(NULL, pixs), were the pixels not copied.
pixCopyNew_NoPixels(h, ps, bytes, hok, dok, cok, junk) ==
    Bind(pixCreateTemplate(h, ps, hok, dok, cok, junk), LAMBDA n1 :
        IF n1.ret = 0 THEN Error(n1, "pixCopy: pixd not made", 0)
        ELSE Return(n1, n1.ret))

\* pixCopy(NULL, pixs): a new pix
pixCopyNew(h, ps, bytes, hok, dok, cok, junk) ==
    Bind(pixCreateTemplate(h, ps, hok, dok, cok, junk), LAMBDA n1 :
        IF n1.ret = 0 THEN Error(n1, "pixCopy: pixd not made", 0)
        ELSE Return(memcpy(n1, n1.pix[n1.ret].data, n1.pix[ps].data, bytes),
                    n1.ret))

\* pixCopy(pixd, pixs), pixd != pixs: the result of pixResizeImageData is
\* not looked at.
pixCopyInto(h, pd, ps, bytes, dok, cok, junk) ==
    Bind(pixCopyText(
             pixCopyInputFormat(
                 pixCopyResolution(
                     pixCopyColormap(
                         pixResizeImageData(Deref(h, pd), pd, ps, dok, junk),
                         pd, ps, cok),
                     pd, ps),
                 pd, ps),
             pd, ps), LAMBDA c5 :
        Return(memcpy(c5, c5.pix[pd].data, c5.pix[ps].data, bytes), pd))

\* pixCopy, were pixd == pixs not looked for.
pixCopy_NoSelfCheck(h, pd, ps, hok, dok, cok, junk) ==
    IF ps = 0 THEN Error(h, "pixCopy: pixs not defined", 0)
    ELSE IF pd = 0
    THEN pixCopyNew(h, ps, DataBytes(h.pix[ps].wpl, h.pix[ps].h),
                    hok, dok, cok, junk)
    ELSE pixCopyInto(h, pd, ps, DataBytes(h.pix[ps].wpl, h.pix[ps].h),
                     dok, cok, junk)

pixCopy(h, pd, ps, hok, dok, cok, junk) ==
    IF ps = 0 THEN Error(h, "pixCopy: pixs not defined", 0)
    ELSE IF ps = pd THEN Return(h, pd)
    ELSE IF pd = 0
    THEN pixCopyNew(h, ps, DataBytes(h.pix[ps].wpl, h.pix[ps].h),
                    hok, dok, cok, junk)
    ELSE pixCopyInto(h, pd, ps, DataBytes(h.pix[ps].wpl, h.pix[ps].h),
                     dok, cok, junk)

(***************************************************************************)
(* The caller.  Every action is one call.  A pointer a call returns is     *)
(* stored in a variable that holds NULL, so that no reference is lost by   *)
(* overwriting it.                                                         *)
(***************************************************************************)
\* (width, height, depth) given to the constructors: two images that differ
\* in every dimension but the depth, and one bad value of each argument.
ValidGeoms == {<<1, 1, 1>>, <<33, 2, 1>>}
GeomInputs == ValidGeoms \cup {<<1, 1, 3>>, <<0, 1, 1>>, <<1, -1, 8>>}

\* What the allocators do during a call: CALLOC finds memory for a header
\* or not (hdr), the pix allocator finds memory for a buffer or not (data)
\* and the buffer then holds junk, pixcmapCopy finds memory or not (cmap).
MemOutcomes ==
    {[hdr |-> FALSE, data |-> FALSE, cmap |-> TRUE, junk |-> ZeroWord],
     [hdr |-> TRUE, data |-> FALSE, cmap |-> TRUE, junk |-> ZeroWord]}
    \cup {[hdr |-> TRUE, data |-> TRUE, cmap |-> TRUE, junk |-> j] : j \in JunkWords}

TextInputs   == {NullStr, "a"}
CmapInputs   == {"gray"}
ResInputs    == {0, 300}
FormatInputs == {IFF_UNKNOWN, 1}

NoFault == [what |-> "none", outcome |-> "none"]
NoCall  == [op |-> "none", a |-> 0, b |-> 0, ret |-> 0, diag |-> <<>>,
            hdr |-> 0]

\* The call of op, given the pointers a and b, ends with heap h.  When it ran into undefined behaviour
\* the build either stops the process inside the call (memory as it was,
\* nothing returned) or carries on with what the call did.
Commit(h, op, a, b) ==
    /\ fault = NoFault
    /\ ~h.full
    /\ \/ /\ pix' = h.pix /\ buf' = h.buf /\ txt' = h.txt /\ cmap' = h.cmap
          /\ slot' = h.slot /\ mgr' = h.mgr
          /\ last' = [op |-> op, a |-> a, b |-> b, ret |-> h.ret,
                      diag |-> h.diag, hdr |-> h.hdr]
          /\ fault' = IF h.fault = "none" THEN NoFault
                      ELSE [what |-> h.fault, outcome |-> "carried on"]
       \/ /\ h.fault # "none"
          /\ UNCHANGED <<pix, buf, txt, cmap, slot, mgr>>
          /\ last' = [op |-> op, a |-> a, b |-> b, ret |-> 0,
                      diag |-> <<>>, hdr |-> 0]
          /\ fault' = [what |-> h.fault, outcome |-> "crashed"]

\* pixs[s] = f(...): the returned pointer is stored in the variable s.
Store(h, s) == [h EXCEPT !.slot[s] = h.ret]

\* The variables are interchangeable: a new pointer goes to the first one
\* that holds NULL.
FirstEmpty(s) == slot[s] = 0 /\ \A t \in Slots : slot[t] = 0 => s <= t

Create(s, g, mem) ==
    /\ FirstEmpty(s)
    /\ Commit(Store(pixCreate(Heap, g[1], g[2], g[3],
                              mem.hdr, mem.data, mem.junk), s),
              "pixCreate", 0, 0)

CreateNoInit(s, g, mem) ==
    /\ FirstEmpty(s)
    /\ Commit(Store(pixCreateNoInit(Heap, g[1], g[2], g[3],
                                    mem.hdr, mem.data, mem.junk), s),
              "pixCreateNoInit", 0, 0)

CreateHeader(s, g, mem) ==
    /\ FirstEmpty(s)
    /\ Commit(Store(pixCreateHeader(Heap, g[1], g[2], g[3], mem.hdr), s),
              "pixCreateHeader", 0, 0)

CreateTemplate(s, t, mem) ==
    /\ FirstEmpty(s)
    /\ Commit(Store(pixCreateTemplate(Heap, slot[t], mem.hdr, mem.data,
                                      mem.cmap, mem.junk), s),
              "pixCreateTemplate", slot[t], 0)

Clone(s, t) ==
    /\ FirstEmpty(s)
    /\ Commit(Store(pixClone(Heap, slot[t]), s), "pixClone", slot[t], 0)

Destroy(s) ==
    Commit(pixDestroy(Heap, s), "pixDestroy",
           IF s = NoSlot THEN 0 ELSE slot[s], 0)

\* pixd = pixCopy(NULL, pixs) when the variable sd holds NULL, and
\* pixCopy(pixd, pixs) when it holds a pix.
Copy(sd, ss, mem) ==
    LET h == pixCopy(Heap, slot[sd], slot[ss], mem.hdr, mem.data, mem.cmap,
                     mem.junk)
    IN  /\ slot[sd] = 0 => FirstEmpty(sd)
        /\ Commit(IF slot[sd] = 0 THEN Store(h, sd) ELSE h,
                  "pixCopy", slot[sd], slot[ss])

SetText(s, str) ==
    /\ slot[s] # 0
    /\ Commit(pixSetText(Heap, slot[s], str), "pixSetText", slot[s], 0)

\* The caller makes a colormap (pixcmapCreate) and gives it to the pix.
SetColormap(s, v) ==
    LET c == Fresh(cmap, CmapIds)
        h == [Heap EXCEPT !.cmap[c] = [st |-> "live", val |-> v, frees |-> 0]]
    IN  /\ slot[s] # 0
        /\ c # 0
        /\ Commit(pixSetColormap(h, slot[s], c), "pixSetColormap", slot[s], c)

SetXRes(s, r) ==
    /\ slot[s] # 0
    /\ Commit(pixSetXRes(Heap, slot[s], r), "pixSetXRes", slot[s], 0)

SetInputFormat(s, f) ==
    /\ slot[s] # 0
    /\ Commit(pixSetInputFormat(Heap, slot[s], f), "pixSetInputFormat",
              slot[s], 0)

\* The call is not one of a scripted caller.
Idle == UNCHANGED <<geo, bal, thr>>

\* Nothing is allocated, every variable of the caller holds NULL, and the
\* memory manager is the default one, in a build without COMPILER_MSVC.
HeapInit ==
    /\ pix  = [p \in PixIds |-> UnusedPix]
    /\ buf  = [b \in BufIds |-> UnusedBuf]
    /\ txt  = [t \in TxtIds |-> UnusedTxt]
    /\ cmap = [c \in CmapIds |-> UnusedCmap]
    /\ slot = [s \in Slots |-> 0]
    /\ mgr  = DefaultManager
    /\ last = NoCall
    /\ fault = NoFault

Init ==
    /\ HeapInit
    /\ geo = <<>>
    /\ bal = <<>>
    /\ thr = <<>>

(***************************************************************************)
(* Spec: the constructors, pixClone, pixDestroy and pixCopy.               *)
(***************************************************************************)
Next ==
    \/ \E s \in Slots, g \in GeomInputs, mem \in MemOutcomes : Create(s, g, mem) /\ Idle
    \/ \E s \in Slots, g \in GeomInputs, mem \in MemOutcomes : CreateNoInit(s, g, mem) /\ Idle
    \/ \E s \in Slots, g \in GeomInputs, mem \in MemOutcomes : CreateHeader(s, g, mem) /\ Idle
    \/ \E s, t \in Slots, mem \in MemOutcomes : CreateTemplate(s, t, mem) /\ Idle
    \/ \E s, t \in Slots : Clone(s, t) /\ Idle
    \/ \E s \in Slots \cup {NoSlot} : Destroy(s) /\ Idle
    \/ \E sd, ss \in Slots, mem \in MemOutcomes : Copy(sd, ss, mem) /\ Idle

Spec == Init /\ [][Next]_vars

(***************************************************************************)
(* LifeSpec: pixCreate, pixCreateNoInit, pixClone and pixDestroy.          *)
(***************************************************************************)
LifeNext ==
    \/ \E s \in Slots, g \in ValidGeoms, mem \in MemOutcomes : Create(s, g, mem) /\ Idle
    \/ \E s \in Slots, g \in ValidGeoms, mem \in MemOutcomes : CreateNoInit(s, g, mem) /\ Idle
    \/ \E s, t \in Slots : Clone(s, t) /\ Idle
    \/ \E s \in Slots \cup {NoSlot} : Destroy(s) /\ Idle

LifeSpec == Init /\ [][LifeNext]_vars

(***************************************************************************)
(* HeaderSpec: pixCreateHeader, with good and bad arguments, pixClone and  *)
(* pixDestroy.                                                             *)
(***************************************************************************)
HeaderNext ==
    \/ \E s \in Slots, g \in GeomInputs, mem \in MemOutcomes : CreateHeader(s, g, mem) /\ Idle
    \/ \E s, t \in Slots : Clone(s, t) /\ Idle
    \/ \E s \in Slots \cup {NoSlot} : Destroy(s) /\ Idle

HeaderSpec == Init /\ [][HeaderNext]_vars

(***************************************************************************)
(* BalanceSpec: one pix is created, cloned n times, and destroyed through  *)
(* n of the n + 1 variables that hold it, then through the last one, and   *)
(* then that variable, which holds NULL by now, is given to pixDestroy     *)
(* once more (as pixf is in skew_reg.c).  bal is the caller's position:    *)
(* n, the clones made (c), the variables destroyed (d), the pix (p), and   *)
(* its pixel buffer and the words in it when pixCreate returned.           *)
(***************************************************************************)
MaxClones == NSlots - 1

BalInit ==
    /\ HeapInit
    /\ geo = <<>>
    /\ thr = <<>>
    /\ \E n \in 0..MaxClones :
          bal = [st |-> "create", n |-> n, c |-> 0, d |-> 0, p |-> 0,
                 data |-> 0, words |-> <<>>, s |-> 0]

BalCreated ==
    bal' = IF last'.ret = 0 THEN [bal EXCEPT !.st = "failed"]
           ELSE [bal EXCEPT !.st = "run", !.p = last'.ret,
                            !.data = pix'[last'.ret].data,
                            !.words = buf'[pix'[last'.ret].data].words]

BalCreate(s, g, mem) ==
    /\ bal.st = "create"
    /\ Create(s, g, mem)
    /\ BalCreated

BalCreateNoInit(s, g, mem) ==
    /\ bal.st = "create"
    /\ CreateNoInit(s, g, mem)
    /\ BalCreated

BalClone(s, t) ==
    /\ bal.st = "run" /\ bal.c < bal.n
    /\ slot[t] = bal.p
    /\ Clone(s, t)
    /\ bal' = [bal EXCEPT !.c = @ + 1]

BalDestroy(s) ==
    /\ bal.st = "run" /\ bal.c = bal.n /\ bal.d < bal.n
    /\ slot[s] = bal.p
    /\ Destroy(s)
    /\ bal' = [bal EXCEPT !.d = @ + 1]

BalFinal(s) ==
    /\ bal.st = "run" /\ bal.c = bal.n /\ bal.d = bal.n
    /\ slot[s] = bal.p
    /\ Destroy(s)
    /\ bal' = [bal EXCEPT !.st = "freed", !.s = s]

BalAgain ==
    /\ bal.st = "freed"
    /\ Destroy(bal.s)
    /\ bal' = [bal EXCEPT !.st = "done"]

BalNext ==
    \/ \E s \in Slots, g \in ValidGeoms, mem \in MemOutcomes : BalCreate(s, g, mem) /\ UNCHANGED <<geo, thr>>
    \/ \E s \in Slots, g \in ValidGeoms, mem \in MemOutcomes : BalCreateNoInit(s, g, mem) /\ UNCHANGED <<geo, thr>>
    \/ \E s, t \in Slots : BalClone(s, t) /\ UNCHANGED <<geo, thr>>
    \/ \E s \in Slots : BalDestroy(s) /\ UNCHANGED <<geo, thr>>
    \/ \E s \in Slots : BalFinal(s) /\ UNCHANGED <<geo, thr>>
    \/ BalAgain /\ UNCHANGED <<geo, thr>>

BalanceSpec == BalInit /\ [][BalNext]_vars

(***************************************************************************)
(* ReleaseSpec: pix with pixels, text and a colormap, cloned and           *)
(* destroyed.                                                              *)
(***************************************************************************)
ReleaseNext ==
    \/ \E s \in Slots, g \in ValidGeoms, mem \in MemOutcomes : Create(s, g, mem) /\ Idle
    \/ \E s \in Slots, str \in TextInputs : SetText(s, str) /\ Idle
    \/ \E s \in Slots, v \in CmapInputs : SetColormap(s, v) /\ Idle
    \/ \E s, t \in Slots : Clone(s, t) /\ Idle
    \/ \E s \in Slots : Destroy(s) /\ Idle

ReleaseSpec == Init /\ [][ReleaseNext]_vars

(***************************************************************************)
(* GeomSpec: the arithmetic of pixCreateHeader and pixCreateNoInit on      *)
(* sizes up to the largest l_int32.  geo holds the arguments, then the wpl *)
(* pixCreateHeader stores, then the bytes pixCreateNoInit asks pix_malloc  *)
(* for.  Where the signed arithmetic overflows, the result is the one of   *)
(* two's complement arithmetic or the program traps.                       *)
(***************************************************************************)
Depths == {1, 2, 4, 8, 16, 24, 32}
GeomWidths == {1, 33, 32768, 67108864, 134217728, MaxInt32}
GeomHeights == {1, 2, 32768, MaxInt32}

GeomInit ==
    /\ HeapInit
    /\ bal = <<>>
    /\ thr = <<>>
    /\ \E w \in GeomWidths, h \in GeomHeights, d \in Depths :
          geo = [st |-> "args", w |-> w, h |-> h, d |-> d, wpl |-> 0,
                 bytes |-> 0]

\* pixCreateHeader: pixSetWpl(pixd, (width * depth + 31) / 32)
GeomHeader ==
    /\ geo.st = "args"
    /\ \/ geo' = [geo EXCEPT !.st = "header", !.wpl = HeaderWpl(geo.w, geo.d)]
       \/ /\ WplOverflows(geo.w, geo.d)
          /\ geo' = [geo EXCEPT !.st = "trapped"]
    /\ UNCHANGED <<heapvars, bal, thr>>

\* pixCreateNoInit: pix_malloc(4 * wpl * height)
GeomData ==
    /\ geo.st = "header"
    /\ \/ geo' = [geo EXCEPT !.st = "data", !.bytes = DataBytes(geo.wpl, geo.h)]
       \/ /\ BytesOverflow(geo.wpl, geo.h)
          /\ geo' = [geo EXCEPT !.st = "trapped"]
    /\ UNCHANGED <<heapvars, bal, thr>>

GeomNext == GeomHeader \/ GeomData

GeomSpec == GeomInit /\ [][GeomNext]_vars

(***************************************************************************)
(* CopySpec: a caller that builds pix (pixels that are not all 0, text, a  *)
(* colormap, a resolution, an input format, clones), then calls pixCopy or *)
(* pixCreateTemplate once, then writes a word of pixels through            *)
(* pixGetData, and destroys.                                               *)
(***************************************************************************)
\* The allocations succeed.
MemOK == {m \in MemOutcomes : m.hdr /\ m.data}

\* As MemOutcomes, and pixcmapCopy finds no memory.
CopyOutcomes ==
    MemOutcomes \cup {[hdr |-> TRUE, data |-> TRUE, cmap |-> FALSE,
                       junk |-> WordBits]}

\* data = pixGetData(pix); data[i - 1] = w
WriteData(s, i, w) ==
    /\ slot[s] # 0
    /\ pix[slot[s]].data # 0
    /\ i \in DOMAIN buf[pix[slot[s]].data].words
    /\ Commit([Heap EXCEPT !.buf[pix[slot[s]].data].words[i] = w],
              "pixGetData", slot[s], 0)

\* colormap.c, pixcmapCreate: a new colormap, with the entries v.
pixcmapCreate(h, v) ==
    Bind(Fresh(h.cmap, CmapIds), LAMBDA c :
        IF c = 0 THEN [h EXCEPT !.full = TRUE, !.ret = 0]
        ELSE [h EXCEPT !.cmap[c] = [st |-> "live", val |-> v, frees |-> 0],
                       !.ret = c])

\* What the caller gives a pix it builds: text or none, a colormap or none,
\* and a resolution and input format, both set or both left as made.
BuildInputs ==
    [text : TextInputs, colormap : CmapInputs \cup {NullStr},
     res : ResInputs, informat : FormatInputs]

\* pix = pixCreateNoInit(w, h, d); pixSetText(pix, text);
\* pixSetColormap(pix, pixcmapCreate(...)); pixSetXRes(pix, res);
\* pixSetInputFormat(pix, informat)
BuildPix(h, g, junk, m) ==
    Bind(pixCreateNoInit(h, g[1], g[2], g[3], TRUE, TRUE, junk), LAMBDA h1 :
    Bind(IF m.text = NullStr THEN h1 ELSE pixSetText(h1, h1.ret, m.text),
         LAMBDA h2 :
    Bind(IF m.colormap = NullStr THEN h2
         ELSE Bind(pixcmapCreate(h2, m.colormap), LAMBDA hc :
                  pixSetColormap(hc, h1.ret, hc.ret)),
         LAMBDA h3 :
        Return(pixSetInputFormat(pixSetXRes(h3, h1.ret, m.res),
                                 h1.ret, m.informat),
               h1.ret))))

Build(s, g, junk, m) ==
    /\ FirstEmpty(s)
    /\ (m.res = 0) = (m.informat = IFF_UNKNOWN)
    /\ Commit(Store(BuildPix(Heap, g, junk, m), s), "build", 0, 0)

\* The caller is still building its pix.
Building == last.op \in {"none", "build", "pixClone"}

\* The caller has just copied.
Copied == last.op \in {"pixCopy", "pixCreateTemplate"}

CopyNext ==
    \/ \E s \in Slots, g \in ValidGeoms, junk \in JunkWords, m \in BuildInputs : Building /\ Build(s, g, junk, m) /\ Idle
    \/ \E s, t \in Slots : Building /\ Clone(s, t) /\ Idle
    \/ \E sd, ss \in Slots, mem \in CopyOutcomes : Building /\ Copy(sd, ss, mem) /\ Idle
    \/ \E s, t \in Slots, mem \in CopyOutcomes : Building /\ CreateTemplate(s, t, mem) /\ Idle
    \/ \E s \in Slots, w \in JunkWords : Copied /\ WriteData(s, 1, w) /\ Idle

CopySpec == Init /\ [][CopyNext]_vars

(***************************************************************************)
(* A caller that also uses the accessors that set the fields of a pix: it  *)
(* makes pix with pixCreate, sets the width, height, depth, wpl and data   *)
(* (to NULL, or to the data of another pix) of the pix of its first        *)
(* variable, and copies and destroys pix.                                  *)
(***************************************************************************)
SetWidths == {-1, 64}
SetHeights == {-1, 1}
SetDepths == {0, 3}
SetWpls == {2}

SetWidth(s, width) ==
    /\ slot[s] # 0
    /\ Commit(pixSetWidth(Heap, slot[s], width), "pixSetWidth", slot[s], 0)

SetHeight(s, height) ==
    /\ slot[s] # 0
    /\ Commit(pixSetHeight(Heap, slot[s], height), "pixSetHeight", slot[s], 0)

SetDepth(s, depth) ==
    /\ slot[s] # 0
    /\ Commit(pixSetDepth(Heap, slot[s], depth), "pixSetDepth", slot[s], 0)

SetWpl(s, wpl) ==
    /\ slot[s] # 0
    /\ Commit(pixSetWpl(Heap, slot[s], wpl), "pixSetWpl", slot[s], 0)

SetData(s, t) ==
    /\ slot[s] # 0
    /\ t # NoSlot => slot[t] # 0
    /\ Commit(pixSetData(Heap, slot[s],
                         IF t = NoSlot THEN 0 ELSE pix[slot[t]].data),
              "pixSetData", slot[s], IF t = NoSlot THEN 0 ELSE slot[t])

SetterSlots == {1}

SetterNext ==
    \/ \E s \in Slots, g \in ValidGeoms, mem \in MemOutcomes : Create(s, g, mem) /\ Idle
    \/ \E s \in SetterSlots, width \in SetWidths : SetWidth(s, width) /\ Idle
    \/ \E s \in SetterSlots, height \in SetHeights : SetHeight(s, height) /\ Idle
    \/ \E s \in SetterSlots, depth \in SetDepths : SetDepth(s, depth) /\ Idle
    \/ \E s \in SetterSlots, wpl \in SetWpls : SetWpl(s, wpl) /\ Idle
    \/ \E s \in SetterSlots, t \in Slots \cup {NoSlot} : SetData(s, t) /\ Idle
    \/ \E sd, ss \in Slots, mem \in MemOutcomes : Copy(sd, ss, mem) /\ Idle
    \/ \E s \in Slots : Destroy(s) /\ Idle

SetterSpec == Init /\ [][SetterNext]_vars

(***************************************************************************)
(* A caller that changes the memory manager between calls that allocate    *)
(* and free pix, pixel buffers and text.                                   *)
(***************************************************************************)
NullFn == "<null function>"
Allocators == {NullFn, "my_malloc"}
Deallocators == {NullFn, "my_free"}

\* setPixMemoryManager, were the two arguments stored whatever they are.
setPixMemoryManager_Always(h, allocator, deallocator) ==
    [h EXCEPT !.mgr.allocator = allocator, !.mgr.deallocator = deallocator]

setPixMemoryManager(h, allocator, deallocator) ==
    Bind(IF allocator # NullFn THEN [h EXCEPT !.mgr.allocator = allocator]
         ELSE h, LAMBDA h1 :
         IF deallocator # NullFn THEN [h1 EXCEPT !.mgr.deallocator = deallocator]
         ELSE h1)

SetManager(allocator, deallocator) ==
    Commit(setPixMemoryManager(Heap, allocator, deallocator),
           "setPixMemoryManager", 0, 0)

ManagerMem == {m \in MemOutcomes : m.junk = ZeroWord}

ManagerNext ==
    \/ \E al \in Allocators, de \in Deallocators : SetManager(al, de) /\ Idle
    \/ \E s \in Slots, g \in ValidGeoms, mem \in ManagerMem : CreateNoInit(s, g, mem) /\ Idle
    \/ \E s \in Slots, g \in ValidGeoms, mem \in ManagerMem : CreateHeader(s, g, mem) /\ Idle
    \/ \E s \in SetterSlots, str \in TextInputs : SetText(s, str) /\ Idle
    \/ \E sd, ss \in Slots, mem \in ManagerMem : Copy(sd, ss, mem) /\ Idle
    \/ \E s \in Slots : Destroy(s) /\ Idle

\* The program is built with or without COMPILER_MSVC.
ManagerInit ==
    /\ pix  = [p \in PixIds |-> UnusedPix]
    /\ buf  = [b \in BufIds |-> UnusedBuf]
    /\ txt  = [t \in TxtIds |-> UnusedTxt]
    /\ cmap = [c \in CmapIds |-> UnusedCmap]
    /\ slot = [s \in Slots |-> 0]
    /\ \E msvc \in BOOLEAN : mgr = [DefaultManager EXCEPT !.msvc = msvc]
    /\ last = NoCall
    /\ fault = NoFault
    /\ geo = <<>>
    /\ bal = <<>>
    /\ thr = <<>>

ManagerSpec == ManagerInit /\ [][ManagerNext]_vars

(***************************************************************************)
(* Two threads that share a pix. The main thread has made it and cloned it *)
(* once: each thread has a variable that holds it. Each thread then calls  *)
(* pixClone and pixDestroy on variables of its own, with no lock. The      *)
(* statement pix->refcount += delta of pixChangeRefcount is a load and a   *)
(* store, and pixFree reads the refcount again for its test: another       *)
(* thread may run between them.                                            *)
(***************************************************************************)
Threads == {1, 2}
MaxOps == 2

\* The thread a variable of the caller belongs to.
Owner(s) == IF s % 2 = 1 THEN 1 ELSE 2

Resting == [pc |-> "idle", op |-> "none", s |-> 0, d |-> 0, p |-> 0,
            tmp |-> 0, n |-> 0]

EmptyHeap ==
    [pix |-> [p \in PixIds |-> UnusedPix], buf |-> [b \in BufIds |-> UnusedBuf],
     txt |-> [t \in TxtIds |-> UnusedTxt], cmap |-> [c \in CmapIds |-> UnusedCmap],
     slot |-> [s \in Slots |-> 0],
     mgr |-> DefaultManager,
     fault |-> "none", full |-> FALSE, diag |-> <<>>, ret |-> 0, hdr |-> 0]

\* pix1 = pixCreate(w, h, d); pix2 = pixClone(pix1);
Shared(g) ==
    Bind(Store(pixCreate(EmptyHeap, g[1], g[2], g[3], TRUE, TRUE, ZeroWord), 1),
         LAMBDA h1 : Store(pixClone(h1, h1.slot[1]), 2))

RaceInit ==
    /\ \E g \in ValidGeoms :
          /\ pix = Shared(g).pix /\ buf = Shared(g).buf
          /\ txt = Shared(g).txt /\ cmap = Shared(g).cmap
          /\ slot = Shared(g).slot /\ mgr = Shared(g).mgr
    /\ last = NoCall
    /\ fault = NoFault
    /\ geo = <<>>
    /\ bal = <<>>
    /\ thr = [th |-> [t \in Threads |-> Resting], overlapped |-> FALSE]

\* pix->refcount += delta: the store of the sum.
StoreRefcount_Dropped(h, p, old, delta) == h

StoreRefcount(h, p, old, delta) ==
    [h EXCEPT !.pix[p].refcount = Add32(old, delta)]

\* pixFree: if (pixGetRefcount(pix) <= 0) { ... FREE(pix); }
pixFreeUnreferenced(h, p) ==
    IF h.pix[p].refcount > 0 THEN h
    ELSE Bind(IF h.pix[p].data # 0 THEN pix_free(h, h.pix[p].data) ELSE h,
              LAMBDA h2 :
         Bind(IF h2.pix[p].text # 0 THEN FreeText(h2, h2.pix[p].text) ELSE h2,
              LAMBDA h3 : FreePix(pixDestroyColormap(h3, p), p)))

\* Thread t enters pixClone(s) (to assign the result to d) or
\* pixDestroy(&s), and pixChangeRefcount loads pix->refcount.
Load(t, op, s, d) ==
    /\ thr.th[t].pc = "idle"
    /\ thr.th[t].n < MaxOps
    /\ Owner(s) = t /\ slot[s] # 0
    /\ IF op = "pixClone" THEN d # NoSlot /\ Owner(d) = t /\ slot[d] = 0
                          ELSE d = NoSlot
    /\ Commit(Deref(Heap, slot[s]), op, slot[s], 0)
    /\ thr' = [thr EXCEPT
                 !.th[t] = [pc |-> "loaded", op |-> op, s |-> s, d |-> d,
                            p |-> slot[s], tmp |-> pix[slot[s]].refcount,
                            n |-> @.n],
                 !.overlapped = @ \/ \E u \in Threads \ {t} :
                                        thr.th[u].pc # "idle"]

\* pixChangeRefcount of thread t stores the sum; pixClone returns then.
StoreCount(t) ==
    LET c  == thr.th[t]
        h1 == StoreRefcount(Deref(Heap, c.p), c.p, c.tmp,
                            IF c.op = "pixClone" THEN 1 ELSE -1)
    IN  /\ c.pc = "loaded"
        /\ IF c.op = "pixClone"
           THEN /\ Commit([h1 EXCEPT !.slot[c.d] = c.p], "pixChangeRefcount",
                          c.p, 1)
                /\ thr' = [thr EXCEPT !.th[t] = [Resting EXCEPT !.n = c.n + 1]]
           ELSE /\ Commit(h1, "pixChangeRefcount", c.p, -1)
                /\ thr' = [thr EXCEPT !.th[t].pc = "stored"]
    
\* pixFree of thread t reads the refcount and frees the pix if it is not
\* above 0; pixDestroy sets the variable to NULL.
TestCount(t) ==
    LET c == thr.th[t]
    IN  /\ c.pc = "stored"
        /\ Commit([pixFreeUnreferenced(Deref(Heap, c.p), c.p)
                      EXCEPT !.slot[c.s] = 0], "pixFree", c.p, 0)
        /\ thr' = [thr EXCEPT !.th[t] = [Resting EXCEPT !.n = c.n + 1]]
    
\* The step is one of a thread.
Threaded == UNCHANGED <<geo, bal>>

RaceNext ==
    \/ \E t \in Threads, s \in Slots, d \in Slots : Load(t, "pixClone", s, d) /\ Threaded
    \/ \E t \in Threads, s \in Slots : Load(t, "pixDestroy", s, NoSlot) /\ Threaded
    \/ \E t \in Threads : StoreCount(t) /\ Threaded
    \/ \E t \in Threads : TestCount(t) /\ Threaded

RaceSpec == RaceInit /\ [][RaceNext]_vars

(***************************************************************************)
(* Callers that make pix with text, resolution and input format, with or   *)
(* without a colormap, clone them, and then set fields of the pix of their *)
(* first variable: one sets the width, height and depth; one the data      *)
(* (NULL, or the pixGetData of a pix); one the colormap (a new one, or the *)
(* pixGetColormap of a pix, which may be the same pix).                    *)
(***************************************************************************)
FieldInputs == {m \in BuildInputs : m.text # NullStr /\ m.res # 0}

GiveColormap(s, t) ==
    /\ slot[s] # 0 /\ slot[t] # 0
    /\ Commit(pixSetColormap(Heap, slot[s], pix[slot[t]].colormap),
              "pixSetColormap", slot[s], pix[slot[t]].colormap)

Made == last.op \in {"none", "build"}

SizeNext ==
    \/ \E s \in Slots, g \in ValidGeoms, junk \in JunkWords, m \in FieldInputs : Made /\ Build(s, g, junk, m) /\ Idle
    \/ \E s, t \in Slots : Building /\ Clone(s, t) /\ Idle
    \/ \E s \in SetterSlots, width \in SetWidths : SetWidth(s, width) /\ Idle
    \/ \E s \in SetterSlots, height \in SetHeights : SetHeight(s, height) /\ Idle
    \/ \E s \in SetterSlots, depth \in SetDepths : SetDepth(s, depth) /\ Idle

SizeSpec == Init /\ [][SizeNext]_vars

DataNext ==
    \/ \E s \in Slots, g \in ValidGeoms, junk \in JunkWords, m \in FieldInputs : Made /\ Build(s, g, junk, m) /\ Idle
    \/ \E s, t \in Slots : Building /\ Clone(s, t) /\ Idle
    \/ \E s \in SetterSlots, t \in Slots \cup {NoSlot} : SetData(s, t) /\ Idle

DataSpec == Init /\ [][DataNext]_vars

ColormapNext ==
    \/ \E s \in Slots, g \in ValidGeoms, junk \in JunkWords, m \in FieldInputs : Made /\ Build(s, g, junk, m) /\ Idle
    \/ \E s, t \in Slots : Building /\ Clone(s, t) /\ Idle
    \/ \E s \in SetterSlots, v \in CmapInputs : SetColormap(s, v) /\ Idle
    \/ \E s \in SetterSlots, t \in Slots : GiveColormap(s, t) /\ Idle

ColormapSpec == Init /\ [][ColormapNext]_vars

(***************************************************************************)
(* The properties.                                                         *)
(***************************************************************************)
\* The caller's variables that hold the pix p.
Refs(p) == {s \in Slots : slot[s] = p}

\* The messages of the call just made.
Messages == {last.diag[i] : i \in DOMAIN last.diag}

\* ceil(width * depth / 32), in the integers.
CeilWpl(width, depth) ==
    (width \div 32) * depth + (((width % 32) * depth + 31) \div 32)

\* The heap but for the record of the call.
memory == <<pix, buf, txt, cmap, slot, mgr>>

\* C2: every live pix has a refcount of at least 1, equal to the number of
\* the caller's variables that hold it.
C2_RefcountCountsSlots ==
    \A p \in PixIds :
        pix[p].st = "live" =>
            /\ pix[p].refcount >= 1
            /\ pix[p].refcount = Cardinality(Refs(p))

\* C8: when the pixel buffer cannot be allocated the constructor returns
\* NULL and the header it made is not left allocated.
C8_NoLeakOnAllocFailure ==
    ( /\ last.op \in {"pixCreate", "pixCreateNoInit", "pixCreateTemplate", "pixCopy"}
      /\ "pixCreateNoInit: MALLOC fail for data" \in Messages )
    => /\ last.ret = 0
       /\ last.hdr # 0 => pix[last.hdr].st # "live"

\* C4: pixDestroy on a variable that holds a pix sets the variable to NULL,
\* whether the pix is freed (it was the last reference) or survives; when
\* it survives, the other variables still hold it and it is still live.
C4_DestroyEmptiesSlot ==
    [][\A s \in Slots :
          (slot[s] # 0 /\ Destroy(s)) =>
              LET p == slot[s]
              IN  /\ slot'[s] = 0
                  /\ \A t \in Slots \ {s} : slot'[t] = slot[t]
                  /\ pix[p].refcount > 1 =>
                        /\ pix'[p].st = "live"
                        /\ Refs(p) \ {s} # {}
                        /\ \A t \in Refs(p) \ {s} : slot'[t] = p
                  /\ pix[p].refcount <= 1 => pix'[p].st = "freed"]_vars

\* A pix survived the pixDestroy of one of the variables that held it.
C4_Witness ==
    /\ last.op = "pixDestroy"
    /\ last.a # 0
    /\ pix[last.a].st = "live"
    /\ Refs(last.a) # {}
    /\ \E s \in Slots : slot[s] = 0

\* C5 as claimed: pixDestroy on a variable that holds NULL writes a message
\* and changes nothing.
C5_EmptySlotReported ==
    [][\A s \in Slots :
          (slot[s] = 0 /\ Destroy(s)) =>
              /\ last'.diag # <<>>
              /\ UNCHANGED memory]_vars

\* C5, amended: pixDestroy on a variable that holds NULL changes nothing
\* and writes no message; the message is written when pixDestroy is given
\* no variable at all (a null PIX**), and nothing changes then either.
C5_EmptySlotSilentNoOp ==
    [][\A s \in Slots \cup {NoSlot} :
          ((s = NoSlot \/ slot[s] = 0) /\ Destroy(s)) =>
              /\ UNCHANGED memory
              /\ fault' = NoFault
              /\ last'.diag = IF s = NoSlot
                              THEN <<"pixDestroy: ptr address is null!">>
                              ELSE <<>>]_vars

\* pixDestroy was called on a variable that holds NULL, with a pix live.
C5_Witness ==
    /\ last.op = "pixDestroy"
    /\ last.a = 0
    /\ last.diag = <<>>
    /\ \E p \in PixIds : pix[p].st = "live" /\ Refs(p) # {}

\* pixCreateHeader(g) made no pix.
NoHeader == last'.ret = 0 /\ UNCHANGED memory

\* pixCreateHeader(g) made a pix: wpl from the width and the depth, refcount
\* 1, input format unknown, no pixel buffer.
MadeHeader(g) ==
    LET p == last'.ret
    IN  /\ p # 0
        /\ pix[p].st = "unused"
        /\ pix'[p].st = "live"
        /\ pix'[p].w = g[1] /\ pix'[p].h = g[2] /\ pix'[p].d = g[3]
        /\ pix'[p].wpl = CeilWpl(g[1], g[3])
        /\ pix'[p].refcount = 1
        /\ pix'[p].informat = IFF_UNKNOWN
        /\ pix'[p].data = 0
        /\ \A q \in PixIds \ {p} : pix'[q] = pix[q]

BadGeom(g) == g[3] \notin {1, 2, 4, 8, 16, 24, 32} \/ g[1] <= 0 \/ g[2] <= 0

SameSize(p, q) ==
    pix[p].w = pix[q].w /\ pix[p].h = pix[q].h /\ pix[p].d = pix[q].d

\* The string at t, the colormap at c; NULL has none.
TextOf(tab, t) == IF t = 0 THEN NullStr ELSE tab[t].val
CmapOf(tab, c) == IF c = 0 THEN NullStr ELSE tab[c].val

\* C9: when pixCopy(pixd, pixs) has to resize pixd and pix_malloc returns
\* NULL, pixd keeps its width, height, depth and wpl and its pixel buffer,
\* still allocated and with the same words, and no byte is written to a
\* freed or a null buffer.
C9_FailedResizeLeavesDest ==
    [][\A sd, ss \in Slots, mem \in MemOutcomes :
          ( /\ slot[sd] # 0 /\ slot[ss] # 0 /\ slot[sd] # slot[ss]
            /\ ~SameSize(slot[sd], slot[ss])
            /\ ~mem.data
            /\ Copy(sd, ss, mem) ) =>
              LET p == slot[sd]
                  b == pix[p].data
              IN  /\ fault' = NoFault
                  /\ pix'[p].w = pix[p].w /\ pix'[p].h = pix[p].h
                  /\ pix'[p].d = pix[p].d /\ pix'[p].wpl = pix[p].wpl
                  /\ pix'[p].data = b
                  /\ b # 0 => buf'[b] = buf[b]]_vars

\* C10: when pixd is held by two variables or more and pixs is another
\* pix, both with pixels, then after pixCopy(pixd, pixs) every variable that
\* held pixd still holds it, its refcount is the same, and its size, wpl,
\* pixels, resolution, input format, text and colormap are those of pixs.
C10_CopySeenThroughClone ==
    [][\A sd, ss \in Slots, mem \in MemOutcomes :
          ( /\ slot[sd] # 0 /\ slot[ss] # 0 /\ slot[sd] # slot[ss]
            /\ pix[slot[sd]].refcount >= 2
            /\ pix[slot[sd]].data # 0 /\ pix[slot[ss]].data # 0
            /\ Copy(sd, ss, mem) ) =>
              LET p == slot[sd]
                  q == slot[ss]
              IN  /\ fault' = NoFault
                  /\ \A c \in Refs(p) : slot'[c] = p
                  /\ pix'[p].st = "live"
                  /\ pix'[p].refcount = pix[p].refcount
                  /\ pix'[p].w = pix[q].w /\ pix'[p].h = pix[q].h
                  /\ pix'[p].d = pix[q].d /\ pix'[p].wpl = pix[q].wpl
                  /\ pix'[p].data # 0
                  /\ buf'[pix'[p].data].st = "live"
                  /\ buf'[pix'[p].data].words = buf[pix[q].data].words
                  /\ pix'[p].xres = pix[q].xres /\ pix'[p].yres = pix[q].yres
                  /\ pix'[p].informat = pix[q].informat
                  /\ TextOf(txt', pix'[p].text) = TextOf(txt, pix[q].text)
                  /\ CmapOf(cmap', pix'[p].colormap) = CmapOf(cmap, pix[q].colormap)
                  /\ pix'[q] = pix[q]]_vars

\* C1: after a pix is created, cloned n times and destroyed through n of
\* the n + 1 variables that hold it, exactly one variable holds it, its
\* refcount is 1 and its pixel buffer is the one it was created with, with
\* the same words in it; pixDestroy of that last variable frees the buffer
\* and the pix, once each; and pixDestroy of the variable again, which
\* holds NULL now, changes nothing.
C1_CloneDestroyBalance ==
    /\ [](bal.st \in {"run", "freed", "done"} => fault = NoFault)
    /\ []((bal.st = "run" /\ bal.c = bal.n /\ bal.d = bal.n) =>
            /\ Cardinality(Refs(bal.p)) = 1
            /\ pix[bal.p].st = "live"
            /\ pix[bal.p].refcount = 1
            /\ pix[bal.p].data = bal.data
            /\ buf[bal.data].st = "live"
            /\ buf[bal.data].words = bal.words)
    /\ [](bal.st \in {"freed", "done"} =>
            /\ pix[bal.p].st = "freed"
            /\ buf[bal.data].st = "freed"
            /\ buf[bal.data].frees = 1
            /\ \A s \in Slots : slot[s] = 0)
    /\ [][BalAgain => UNCHANGED memory]_vars

\* Two clones were made, and all three variables destroyed, the last twice.
C1_Witness ==
    /\ bal.st = "done"
    /\ bal.n >= 2 /\ bal.c = bal.n /\ bal.d = bal.n
    /\ last.op = "pixDestroy" /\ last.a = 0
    /\ pix[bal.p].st = "freed"

\* The pixel buffer, the text and the colormap of a pix, as the set of what
\* it has of each.
DataOf(p) == IF pix[p].data = 0 THEN {} ELSE {pix[p].data}
StringOf(p) == IF pix[p].text = 0 THEN {} ELSE {pix[p].text}
ColormapOf(p) == IF pix[p].colormap = 0 THEN {} ELSE {pix[p].colormap}

\* C3: the pixel buffer, the text, the colormap and the pix itself are
\* freed by the pixDestroy that takes the refcount to 0 or below, each once,
\* and by no pixClone and no pixDestroy that leaves the refcount above 0;
\* what a live pix has is allocated; and no variable holds a freed pix, so
\* that no call is given one.
C3_ReleasedExactlyOnce ==
    /\ [](fault = NoFault)
    /\ [](\A s \in Slots : slot[s] # 0 => pix[slot[s]].st = "live")
    /\ [](\A p \in PixIds :
            pix[p].st = "live" =>
              /\ pix[p].refcount > 0
              /\ \A b \in DataOf(p) : buf[b].st = "live"
              /\ \A t \in StringOf(p) : txt[t].st = "live"
              /\ \A c \in ColormapOf(p) : cmap[c].st = "live")
    /\ [](/\ \A b \in BufIds : buf[b].frees <= 1
          /\ \A t \in TxtIds : txt[t].frees <= 1
          /\ \A c \in CmapIds : cmap[c].frees <= 1)
    /\ [][\A s \in Slots :
            (slot[s] # 0 /\ Destroy(s)) =>
              LET p == slot[s]
              IN  IF pix[p].refcount - 1 <= 0
                  THEN /\ pix'[p].st = "freed"
                       /\ \A b \in BufIds :
                            buf'[b] = IF b \in DataOf(p)
                                      THEN [Released(UnusedBuf, buf[b])
                                               EXCEPT !.freedBy = mgr.deallocator]
                                      ELSE buf[b]
                       /\ \A t \in TxtIds :
                            txt'[t] = IF t \in StringOf(p)
                                      THEN Released(UnusedTxt, txt[t])
                                      ELSE txt[t]
                       /\ \A c \in CmapIds :
                            cmap'[c] = IF c \in ColormapOf(p)
                                       THEN Released(UnusedCmap, cmap[c])
                                       ELSE cmap[c]
                       /\ \A q \in PixIds \ {p} : pix'[q] = pix[q]
                  ELSE /\ pix' = [pix EXCEPT ![p].refcount = @ - 1]
                       /\ UNCHANGED <<buf, txt, cmap>>]_vars
    /\ [][\A s, t \in Slots :
            Clone(s, t) =>
              /\ UNCHANGED <<buf, txt, cmap>>
              /\ \A p \in PixIds : pix'[p].st = pix[p].st]_vars

\* The last pixDestroy of a pix that had been cloned freed it, with its
\* pixel buffer, its text and its colormap.
C3_Witness ==
    /\ last.op = "pixDestroy"
    /\ last.a # 0
    /\ pix[last.a].st = "freed"
    /\ \A p \in PixIds : pix[p].st # "live"
    /\ \E b \in BufIds : buf[b].st = "freed" /\ buf[b].frees = 1
    /\ txt[1].st = "freed" /\ txt[1].frees = 1 /\ txt[2].st = "unused"
    /\ cmap[1].st = "freed" /\ cmap[1].frees = 1 /\ cmap[2].st = "unused"

\* C7: for every depth of the seven and every width > 0 and height > 0
\* that an l_int32 holds, the wpl stored is ceil(width * depth / 32) and the
\* bytes asked of pix_malloc are 4 * wpl * height, in the integers; the
\* program does not trap.
C7_WplAndBytesExact ==
    /\ geo.st # "trapped"
    /\ geo.st \in {"header", "data"} => geo.wpl = CeilWpl(geo.w, geo.d)
    /\ geo.st = "data" =>
          /\ ~BytesOverflow(geo.wpl, geo.h)
          /\ geo.bytes = 4 * geo.wpl * geo.h

\* The pix q, and what it owns, are as they were.
Untouched(q) ==
    /\ pix'[q] = pix[q]
    /\ \A b \in DataOf(q) : buf'[b] = buf[b]
    /\ \A t \in StringOf(q) : txt'[t] = txt[t]
    /\ \A c \in ColormapOf(q) : cmap'[c] = cmap[c]

\* The call made the pix n, with a refcount of 1 and a pixel buffer that was
\* not allocated before.
NewPix(n) ==
    /\ pix[n].st = "unused"
    /\ pix'[n].st = "live"
    /\ pix'[n].refcount = 1
    /\ pix'[n].data # 0
    /\ buf[pix'[n].data].st = "unused"
    /\ buf'[pix'[n].data].st = "live"

\* C11: pixCopy(NULL, pixs), for pixs with pixels, leaves pixs, its pixels,
\* text and colormap as they were; the pix it returns (it returns one when
\* the allocations succeed) is new, has a refcount of 1, the size and wpl of
\* pixs, and a pixel buffer of its own that holds the words of pixs; and a
\* later write to the pixels of a pix changes no other pixel buffer.
C11_CopyIsIndependent ==
    /\ [][\A sd, ss \in Slots, mem \in CopyOutcomes :
            (slot[sd] = 0 /\ slot[ss] # 0 /\ Copy(sd, ss, mem)) =>
              LET q == slot[ss]
                  n == last'.ret
              IN  /\ fault' = NoFault
                  /\ Untouched(q)
                  /\ (mem.hdr /\ mem.data) => n # 0
                  /\ n # 0 =>
                        /\ NewPix(n)
                        /\ slot'[sd] = n
                        /\ pix'[n].w = pix[q].w /\ pix'[n].h = pix[q].h
                        /\ pix'[n].d = pix[q].d /\ pix'[n].wpl = pix[q].wpl
                        /\ pix'[n].data # pix[q].data
                        /\ buf'[pix'[n].data].words = buf[pix[q].data].words]_vars
    /\ [][\A s \in Slots, w \in JunkWords :
            (Copied /\ WriteData(s, 1, w)) =>
              /\ buf'[pix[slot[s]].data].words[1] = w
              /\ \A b \in BufIds \ {pix[slot[s]].data} : buf'[b] = buf[b]
              /\ UNCHANGED <<pix, txt, cmap, slot>>]_vars

\* pixCopy(NULL, pixs) returned a copy of pixels that are not all 0, and a
\* word of one of the two pix was written: the two differ now.
C11_Witness ==
    /\ last.op = "pixGetData"
    /\ \E p, q \in PixIds :
          /\ p # q
          /\ pix[p].st = "live" /\ pix[q].st = "live"
          /\ pix[p].data # 0 /\ pix[q].data # 0
          /\ pix[p].data # pix[q].data
          /\ pix[p].w = 33 /\ pix[q].w = 33
          /\ buf[pix[p].data].words[1] = ZeroWord
          /\ buf[pix[q].data].words[1] = WordBits
          /\ buf[pix[p].data].words[3] = WordBits
          /\ buf[pix[q].data].words[3] = WordBits

\* C12: pixCopy(pix, pix) returns pix and changes nothing: no pix, pixel
\* buffer, text, colormap or variable of the caller, whatever the
\* allocator would have answered; and it writes no message.
C12_CopyOntoItself ==
    [][\A sd, ss \in Slots, mem \in CopyOutcomes :
          (slot[sd] # 0 /\ slot[sd] = slot[ss] /\ Copy(sd, ss, mem)) =>
              /\ last'.ret = slot[sd]
              /\ last'.diag = <<>>
              /\ fault' = NoFault
              /\ UNCHANGED memory]_vars

\* pixCopy(pix, pix) was called on a pix with text and a colormap, held by
\* two variables.
C12_Witness ==
    /\ last.op = "pixCopy"
    /\ last.a # 0 /\ last.a = last.b /\ last.ret = last.a
    /\ pix[last.a].text # 0 /\ pix[last.a].colormap # 0
    /\ pix[last.a].refcount = 2
    /\ buf[pix[last.a].data].words[1] = WordBits

C14_CopyReplacesMetadata ==
    [][\A sd, ss \in Slots, mem \in MemOK :
          ( /\ slot[sd] # 0 /\ slot[ss] # 0 /\ slot[sd] # slot[ss]
            /\ mem.cmap
            /\ Copy(sd, ss, mem) ) =>
              LET p == slot[sd]
                  q == slot[ss]
              IN  /\ fault' = NoFault
                  /\ Untouched(q)
                  /\ pix'[p].xres = pix[q].xres /\ pix'[p].yres = pix[q].yres
                  /\ pix'[p].informat = pix[q].informat
                  /\ TextOf(txt', pix'[p].text) = TextOf(txt, pix[q].text)
                  /\ CmapOf(cmap', pix'[p].colormap) = CmapOf(cmap, pix[q].colormap)
                  /\ \A t \in StringOf(p) :
                        txt'[t] = Released(UnusedTxt, txt[t])
                  /\ \A c \in ColormapOf(p) :
                        cmap'[c] = Released(UnusedCmap, cmap[c])
                  /\ pix'[p].text # 0 =>
                        /\ pix'[p].text # pix[q].text
                        /\ txt[pix'[p].text].st = "unused"
                        /\ txt'[pix'[p].text].st = "live"
                  /\ pix'[p].colormap # 0 =>
                        /\ pix'[p].colormap # pix[q].colormap
                        /\ cmap[pix'[p].colormap].st = "unused"
                        /\ cmap'[pix'[p].colormap].st = "live"]_vars

\* C15: the pix that pixCreateTemplate(pixs) returns is new and has a
\* refcount of 1, the width, height, depth, resolution and input format of
\* pixs, a text and a colormap with the contents of those of pixs, each in
\* memory of its own, and a pixel buffer of its own whose words are all 0;
\* pixs and what it owns are as they were.
C15_TemplateParity ==
    [][\A s, t \in Slots, mem \in CopyOutcomes :
          (slot[t] # 0 /\ CreateTemplate(s, t, mem) /\ last'.ret # 0) =>
              LET q == slot[t]
                  n == last'.ret
              IN  /\ fault' = NoFault
                  /\ Untouched(q)
                  /\ NewPix(n)
                  /\ slot'[s] = n
                  /\ pix'[n].w = pix[q].w /\ pix'[n].h = pix[q].h
                  /\ pix'[n].d = pix[q].d
                  /\ pix'[n].xres = pix[q].xres /\ pix'[n].yres = pix[q].yres
                  /\ pix'[n].informat = pix[q].informat
                  /\ TextOf(txt', pix'[n].text) = TextOf(txt, pix[q].text)
                  /\ CmapOf(cmap', pix'[n].colormap) = CmapOf(cmap, pix[q].colormap)
                  /\ pix'[n].text # 0 =>
                        /\ txt[pix'[n].text].st = "unused"
                        /\ txt'[pix'[n].text].st = "live"
                  /\ pix'[n].colormap # 0 =>
                        /\ cmap[pix'[n].colormap].st = "unused"
                        /\ cmap'[pix'[n].colormap].st = "live"
                  /\ pix'[n].data # pix[q].data
                  /\ buf'[pix'[n].data].bytes = 4 * pix'[n].wpl * pix'[n].h
                  /\ \A i \in DOMAIN buf'[pix'[n].data].words :
                        buf'[pix'[n].data].words[i] = ZeroWord]_vars

\* Bit k (0 the leftmost) of the last word of a row holds no pixel of a
\* row of w pixels of d bits in wpl words.
PadBit(w, d, wpl, k) == (wpl - 1) * 32 + k >= w * d

\* C16: in the pix that pixCreateNoInit returns, whose width does not
\* fill its words, the pad bits of the last word of every row are 0,
\* whatever pix_malloc left in the memory: they are cleared in the buffer
\* that the pix has, after pixSetData.
C16_PadBitsCleared ==
    [][\A s \in Slots, g \in ValidGeoms, mem \in MemOutcomes :
          (CreateNoInit(s, g, mem) /\ last'.ret # 0) =>
              LET n == last'.ret
                  r == pix'[n]
              IN  /\ fault' = NoFault
                  /\ r.data # 0
                  /\ buf'[r.data].st = "live"
                  /\ (r.w * r.d) % 32 # 0
                  /\ \A row \in 1..r.h : \A k \in WordBits :
                        PadBit(r.w, r.d, r.wpl, k) =>
                            k \notin buf'[r.data].words[row * r.wpl]]_vars

\* pixCreateNoInit(33, 2, 1) returned a pix whose memory came with every
\* bit set: the first word of each row is as it came, the second has the
\* 33rd pixel and 31 pad bits that are 0.
C16_Witness ==
    /\ last.op = "pixCreateNoInit"
    /\ last.ret # 0
    /\ pix[last.ret].w = 33 /\ pix[last.ret].h = 2 /\ pix[last.ret].wpl = 2
    /\ pix[last.ret].data # 0
    /\ buf[pix[last.ret].data].words = <<WordBits, {0}, WordBits, {0}>>

\* C17: in the pix that pixCreate returns, the pixel buffer has wpl *
\* height words and every one of them is 0, whatever pix_malloc left in
\* the memory.
C17_CreateZeroFills ==
    [][\A s \in Slots, g \in ValidGeoms, mem \in MemOutcomes :
          (Create(s, g, mem) /\ last'.ret # 0) =>
              LET n == last'.ret
                  r == pix'[n]
              IN  /\ fault' = NoFault
                  /\ r.data # 0
                  /\ buf'[r.data].st = "live"
                  /\ Len(buf'[r.data].words) = r.wpl * r.h
                  /\ \A i \in 1..(r.wpl * r.h) :
                        buf'[r.data].words[i] = ZeroWord]_vars

\* pixCreate(33, 2, 1) returned a pix of 4 words, all 0, after a pix was
\* made by pixCreateNoInit in memory that came with every bit set.
C17_Witness ==
    /\ last.op = "pixCreate"
    /\ last.ret # 0
    /\ pix[last.ret].w = 33 /\ pix[last.ret].h = 2 /\ pix[last.ret].wpl = 2
    /\ pix[last.ret].data # 0
    /\ buf[pix[last.ret].data].words = <<ZeroWord, ZeroWord, ZeroWord, ZeroWord>>
    /\ \E b \in BufIds : buf[b].st = "live" /\ buf[b].words[1] = WordBits

\* C18: every pix that is allocated and has a pixel buffer has one of
\* 4 * wpl * height bytes, for the wpl and the height the pix has now.
C18_BufferLength ==
    \A p \in PixIds :
        (pix[p].st = "live" /\ pix[p].data # 0) =>
            /\ buf[pix[p].data].st = "live"
            /\ buf[pix[p].data].bytes = 4 * pix[p].wpl * pix[p].h

\* C19: every pix that is allocated has a wpl of ceil(width * depth / 32),
\* for the width and the depth the pix has now.
C19_WplDerived ==
    \A p \in PixIds :
        pix[p].st = "live" => pix[p].wpl = CeilWpl(pix[p].w, pix[p].d)

\* C20: every pix that is allocated has a depth of 1, 2, 4, 8, 16, 24 or
\* 32 and a width and a height above 0.
C20_GeometryWellFormed ==
    \A p \in PixIds :
        pix[p].st = "live" =>
            /\ pix[p].d \in Depths
            /\ pix[p].w > 0
            /\ pix[p].h > 0

\* C21: pixSetWidth and pixSetHeight of a pix with a value below 0 store
\* 0 for the width, the height, write a message and return 1; pixSetDepth
\* with a value below 1 writes a message, returns 1 and stores nothing; in
\* each case no other field of the pix and nothing else in memory changes.
C21_SettersRejectBadValues ==
    /\ [][\A s \in SetterSlots, width \in SetWidths :
            (width < 0 /\ SetWidth(s, width)) =>
              /\ last'.ret = 1
              /\ last'.diag = <<"pixSetWidth: width must be >= 0">>
              /\ pix' = [pix EXCEPT ![slot[s]].w = 0]
              /\ UNCHANGED <<buf, txt, cmap, slot, mgr>>
              /\ fault' = NoFault]_vars
    /\ [][\A s \in SetterSlots, height \in SetHeights :
            (height < 0 /\ SetHeight(s, height)) =>
              /\ last'.ret = 1
              /\ last'.diag = <<"pixSetHeight: h must be >= 0">>
              /\ pix' = [pix EXCEPT ![slot[s]].h = 0]
              /\ UNCHANGED <<buf, txt, cmap, slot, mgr>>
              /\ fault' = NoFault]_vars
    /\ [][\A s \in SetterSlots, depth \in SetDepths :
            (depth < 1 /\ SetDepth(s, depth)) =>
              /\ last'.ret = 1
              /\ last'.diag = <<"pixSetDepth: d must be >= 1">>
              /\ UNCHANGED memory
              /\ fault' = NoFault]_vars

\* A pix of 33 x 2 with text, a colormap and two variables that hold it
\* was given a width and a height below 0, and then a depth below 1.
C21_Witness ==
    /\ last.op = "pixSetDepth"
    /\ last.ret = 1
    /\ last.a # 0
    /\ pix[last.a].w = 0 /\ pix[last.a].h = 0 /\ pix[last.a].d = 1
    /\ pix[last.a].wpl = 2
    /\ pix[last.a].refcount = 2
    /\ pix[last.a].text # 0 /\ pix[last.a].colormap # 0
    /\ buf[pix[last.a].data].bytes = 16

\* A variable holds a pix that is freed; every variable holds NULL, no
\* thread is in a call, and a pix is still allocated.
PrematureFree == \E s \in Slots : slot[s] # 0 /\ pix[slot[s]].st = "freed"
Quiet == \A t \in Threads : thr.th[t].pc = "idle"
Leaked ==
    /\ Quiet
    /\ \A s \in Slots : slot[s] = 0
    /\ \E p \in PixIds : pix[p].st = "live"

\* C22: two threads call pixClone and pixDestroy on variables that hold
\* one pix. As long as no call of one thread began while a call of the
\* other was under way, no variable holds a freed pix, no pix is left
\* allocated when every variable is NULL, nothing undefined happens, and
\* between calls the refcount is the number of variables that hold the
\* pix; and pixChangeRefcount stores a sum made from a refcount that is no
\* longer the one in memory only when calls have overlapped. (That calls
\* that overlap do lose an update and free a pix that is still held is the
\* state C22_Witness; that they leak one is C22_LeakWitness.)
C22_SerializedCallsAreSafe ==
    /\ [](~thr.overlapped =>
            /\ fault = NoFault
            /\ ~PrematureFree
            /\ ~Leaked
            /\ Quiet => \A p \in PixIds :
                  pix[p].st = "live" =>
                      pix[p].refcount = Cardinality(Refs(p)))
    /\ [][\A t \in Threads :
            (StoreCount(t) /\ thr.th[t].tmp # pix[thr.th[t].p].refcount) =>
                thr.overlapped]_vars

\* The increment of a pixClone was lost to a pixDestroy of the other
\* thread, and the next pixDestroy freed the pix that the clone still
\* holds.
C22_Witness ==
    /\ thr.overlapped
    /\ fault = NoFault
    /\ Quiet
    /\ PrematureFree
    /\ \E s \in Slots : slot[s] # 0 /\ \A u \in Slots \ {s} : slot[u] = 0

\* The decrement of a pixDestroy was lost to the pixDestroy of the other
\* thread: every variable is NULL and the pix, with a refcount of 1, is
\* never freed.
C22_LeakWitness ==
    /\ thr.overlapped
    /\ fault = NoFault
    /\ Leaked
    /\ \E p \in PixIds : pix[p].st = "live" /\ pix[p].refcount = 1

\* pixSetColormap(p, c) destroyed the colormap that p had, once, stored c
\* in p, and allocated, copied and freed nothing else; every variable
\* holds what it held.
ColormapReplaced(p, c) ==
    LET old == pix[p].colormap
    IN  /\ last'.ret = 0
        /\ fault' = NoFault
        /\ pix' = [pix EXCEPT ![p].colormap = c]
        /\ old # 0 =>
              /\ cmap'[old].st = "freed"
              /\ cmap'[old].frees = 1
        /\ \A k \in CmapIds \ {old, c} : cmap'[k] = cmap[k]
        /\ UNCHANGED <<buf, txt, slot, mgr>>

\* C23: pixSetColormap(pix, cmap), for a pix that has no colormap or one
\* that is allocated, destroys the colormap that pix had, once, and stores
\* cmap itself in the pix: no colormap is allocated or copied by the call,
\* the pix has the one colormap cmap, and since the variables that held the
\* pix still hold it, each of them sees cmap.
C23_SetColormapAdopts ==
    /\ [][\A s \in SetterSlots, v \in CmapInputs :
            ( /\ slot[s] # 0
              /\ \A k \in ColormapOf(slot[s]) : cmap[k].st = "live"
              /\ SetColormap(s, v) ) =>
                LET c == Fresh(cmap, CmapIds)
                IN  /\ ColormapReplaced(slot[s], c)
                    /\ cmap'[c] = [st |-> "live", val |-> v, frees |-> 0]
                    /\ \A u \in Refs(slot[s]) :
                          pix'[slot'[u]].colormap = c]_vars
    /\ [][\A s \in SetterSlots, t \in Slots :
            ( /\ slot[s] # 0 /\ slot[t] # 0
              /\ \A k \in ColormapOf(slot[s]) : cmap[k].st = "live"
              /\ GiveColormap(s, t) ) =>
                LET c == pix[slot[t]].colormap
                IN  /\ ColormapReplaced(slot[s], c)
                    /\ (c # 0 /\ c # pix[slot[s]].colormap) =>
                          cmap'[c] = cmap[c]
                    /\ \A u \in Refs(slot[s]) :
                          pix'[slot'[u]].colormap = c]_vars

\* A pix held by two variables had a colormap and was given a new one: the
\* old one is freed, once, and the pix has the new one.
C23_Witness ==
    /\ last.op = "pixSetColormap"
    /\ last.a # 0 /\ last.b # 0 /\ last.ret = 0
    /\ pix[last.a].refcount = 2
    /\ pix[last.a].colormap = last.b
    /\ cmap[last.b].st = "live"
    /\ \E k \in CmapIds : cmap[k].st = "freed" /\ cmap[k].frees = 1
    /\ \A k \in CmapIds : cmap[k].st = "live" => k = last.b

\* C27: after pixSetColormap(pix, cmap) has returned 0, for a colormap
\* cmap that was allocated when it was called and a pix whose colormap, if
\* it had one, was allocated, the colormap of pix is cmap and cmap is still
\* allocated.
C27_ColormapSetIsAlive ==
    [][\A s \in SetterSlots, t \in Slots :
          ( /\ slot[s] # 0 /\ slot[t] # 0
            /\ pix[slot[t]].colormap # 0
            /\ cmap[pix[slot[t]].colormap].st = "live"
            /\ \A k \in ColormapOf(slot[s]) : cmap[k].st = "live"
            /\ GiveColormap(s, t)
            /\ last'.ret = 0 ) =>
              /\ pix'[slot[s]].colormap = pix[slot[t]].colormap
              /\ cmap'[pix[slot[t]].colormap].st = "live"]_vars

\* C24: pixSetData(pix, data), with NULL or the data of a pix, stores
\* data in the pix and returns 0; no pixel buffer is freed, allocated or
\* written, so the one the pix had is still allocated; the width, height,
\* depth, wpl, refcount, resolution, input format, text and colormap of the
\* pix, and everything else, are as they were.
C24_SetDataKeepsOldBuffer ==
    [][\A s \in SetterSlots, t \in Slots \cup {NoSlot} :
          (slot[s] # 0 /\ SetData(s, t)) =>
              LET p   == slot[s]
                  old == pix[p].data
                  new == IF t = NoSlot THEN 0 ELSE pix[slot[t]].data
              IN  /\ last'.ret = 0
                  /\ fault' = NoFault
                  /\ pix' = [pix EXCEPT ![p].data = new]
                  /\ old # 0 => buf'[old].st = "live" /\ buf'[old] = buf[old]
                  /\ UNCHANGED <<buf, txt, cmap, slot, mgr>>]_vars

\* pixSetData(pix, NULL) on a pix of 33 x 2 held by two variables: its
\* buffer of 16 bytes is still allocated, and no pix has it.
C24_Witness ==
    /\ last.op = "pixSetData"
    /\ last.a # 0 /\ last.b = 0 /\ last.ret = 0
    /\ pix[last.a].data = 0
    /\ pix[last.a].w = 33 /\ pix[last.a].wpl = 2
    /\ pix[last.a].refcount = 2
    /\ \E b \in BufIds :
          /\ buf[b].st = "live" /\ buf[b].bytes = 16
          /\ \A q \in PixIds : pix[q].data # b

\* setPixMemoryManager stores its allocator argument if it is not null
\* and its deallocator argument if it is not null, and changes nothing
\* else. pixCreateHeader and pixSetText allocate and free no pixel buffer,
\* and pixCreateNoInit has made its pix when pix_malloc fails: the pix and
\* the text do not come from the memory manager.
ManagerIsSetAndLeftAlone ==
    /\ [][\A al \in Allocators, de \in Deallocators :
            SetManager(al, de) =>
              /\ mgr'.allocator = (IF al = NullFn THEN mgr.allocator ELSE al)
              /\ mgr'.deallocator = (IF de = NullFn THEN mgr.deallocator ELSE de)
              /\ mgr'.msvc = mgr.msvc
              /\ UNCHANGED <<pix, buf, txt, cmap, slot>>]_vars
    /\ [][\A s \in Slots, g \in ValidGeoms, mem \in ManagerMem :
            CreateHeader(s, g, mem) => UNCHANGED <<buf, mgr>>]_vars
    /\ [][\A s \in SetterSlots, str \in TextInputs :
            SetText(s, str) => UNCHANGED <<buf, mgr>>]_vars
    /\ [][\A s \in Slots, g \in ValidGeoms, mem \in ManagerMem :
            (mem.hdr /\ ~mem.data /\ CreateNoInit(s, g, mem)) =>
              /\ last'.hdr # 0
              /\ pix'[last'.hdr].st = "live"
              /\ UNCHANGED <<buf, mgr>>]_vars

\* In a step, the pixel buffers that are allocated come from the function
\* al and those that are freed go to the function de.
BuffersThrough(al, de) ==
    \A b \in BufIds :
        /\ (buf[b].st = "unused" /\ buf'[b].st = "live") => buf'[b].by = al
        /\ (buf[b].st = "live" /\ buf'[b].st = "freed") => buf'[b].freedBy = de
        /\ (buf[b].st = "live" /\ buf'[b].st = "live") => buf'[b].by = buf[b].by

C26_CopyLeavesABuffer ==
    [][\A sd, ss \in Slots, mem \in MemOutcomes :
          ( /\ slot[sd] # 0 /\ slot[ss] # 0 /\ slot[sd] # slot[ss]
            /\ pix[slot[ss]].data # 0
            /\ mem.data
            /\ Copy(sd, ss, mem)
            /\ last'.ret # 0 ) =>
              LET p == slot[sd]
                  q == slot[ss]
              IN  /\ fault' = NoFault
                  /\ last'.ret = p
                  /\ pix'[p].data # 0
                  /\ buf'[pix'[p].data].st = "live"
                  /\ buf'[pix'[p].data].bytes = 4 * pix[q].wpl * pix[q].h
                  /\ buf'[pix'[p].data].words = buf[pix[q].data].words]_vars

====
